---- MODULE Spec2Model ----
(***************************************************************************)
(* The voice session engine of frontend/src/VoiceChat.jsx: the React      *)
(* component VoiceChat, its state hooks and refs, the WebSocket channels   *)
(* it creates, the MediaRecorder capture pipeline and the speechSynthesis  *)
(* playback.  Every handler of the component is an operator from a state   *)
(* record to a state record, named as in the source; an action runs one    *)
(* handler to completion (JavaScript's run-to-completion event loop).      *)
(***************************************************************************)
EXTENDS Integers, Sequences, FiniteSets, TLC

\* ---- bounds ----------------------------------------------------------
MaxChannels   == 2   \* startSession invocations (WebSocket objects) per run
MaxRecorders  == 2   \* getUserMedia requests (MediaRecorder objects) per run
MaxTranscript == 2   \* transcript entries between two restarts
MaxPartials   == 2   \* non-final input_transcript messages per utterance
\* Spec and SpecEnd explore fewer recordings than SpecCapture does, and
\* SpecCapture and SpecEnd fewer sessions than Spec.
SessionRecorders == 1
CaptureChannels  == 1

\* ---- value sets ------------------------------------------------------
NoMission == "null"
Missions  == {"m1"}
Languages == {[code |-> "en", name |-> "English"],
              [code |-> "es", name |-> "Spanish"]}
Modes     == {"teacher", "immersive"}
NoText    == "none"
MsgTexts  == {"a", "b"}
Inputs    == {"", " ", "a"}
NoError   == "null"
Channels  == 1..MaxChannels
Recorders == 1..MaxRecorders

VARIABLES
    view,              \* useState('setup')
    selectedMission,   \* useState(null)
    selectedLanguage,  \* useState(LANGUAGES[0])
    mode,              \* useState('teacher')
    sessionId,         \* useState(null); 0 is null
    isConnected,       \* useState(false)
    isRecording,       \* useState(false)
    isMuted,           \* useState(false)
    transcripts,       \* useState([])
    error,             \* useState(null)
    textInput,         \* useState('')
    wsRef,             \* useRef(null); 0 is null, else the channel's index
    mediaRecorderRef,  \* useRef(null); 0 is null, else the recorder's index
    streamRef,         \* useRef(null); 0 is null, else the stream's index
    chan,              \* the WebSocket objects created by startSession
    rec,               \* the MediaRecorder / MediaStream pairs created, each
                       \* with the session in which it was started
    pendingMic,        \* getUserMedia promises not yet settled
    speaking,          \* the utterance window.speechSynthesis is playing
    mounted,           \* the component is mounted
    requests,          \* history: the bodies of the setup requests issued
    audioLog,          \* history: the 'audio' sends made so far
    utterance,         \* history: the server's current input_transcript run
    last               \* history: the handler that ran last

vars == <<view, selectedMission, selectedLanguage, mode, sessionId,
          isConnected, isRecording, isMuted, transcripts, error, textInput,
          wsRef, mediaRecorderRef, streamRef, chan, rec, pendingMic,
          speaking, mounted, requests, audioLog, utterance, last>>

\* The state as one record, the argument and result of every handler.
\* threw, spoke and asked are per-handler outputs: the handler raised an
\* exception; the handler called speechSynthesis.speak; the calls of
\* speakText the handler made.
S ==
    [view |-> view, selectedMission |-> selectedMission,
     selectedLanguage |-> selectedLanguage, mode |-> mode,
     sessionId |-> sessionId, isConnected |-> isConnected,
     isRecording |-> isRecording, isMuted |-> isMuted,
     transcripts |-> transcripts, error |-> error, textInput |-> textInput,
     wsRef |-> wsRef, mediaRecorderRef |-> mediaRecorderRef,
     streamRef |-> streamRef, chan |-> chan, rec |-> rec,
     pendingMic |-> pendingMic, speaking |-> speaking,
     requests |-> requests, audioLog |-> audioLog, utterance |-> utterance,
     threw |-> FALSE, spoke |-> FALSE, asked |-> 0]

\* A WebSocket never created; a recorder never created.
NoChan == [st |-> "none", capMuted |-> FALSE, closeBegun |-> FALSE, ended |-> FALSE]
NoRec  == [st |-> "none", live |-> FALSE, flush |-> "none", session |-> 0]

Init ==
    /\ view = "setup"
    /\ selectedMission = NoMission
    /\ selectedLanguage = [code |-> "en", name |-> "English"]
    /\ mode = "teacher"
    /\ sessionId = 0
    /\ isConnected = FALSE
    /\ isRecording = FALSE
    /\ isMuted = FALSE
    /\ transcripts = <<>>
    /\ error = NoError
    /\ textInput = ""
    /\ wsRef = 0
    /\ mediaRecorderRef = 0
    /\ streamRef = 0
    /\ chan = [c \in Channels |-> NoChan]
    /\ rec = [r \in Recorders |-> NoRec]
    /\ pendingMic = 0
    /\ speaking = NoText
    /\ mounted = TRUE
    /\ requests = {}
    /\ audioLog = {}
    /\ utterance = [partials |-> 0, done |-> TRUE]
    /\ last = [op |-> "init", threw |-> FALSE, spoke |-> FALSE, asked |-> 0]

\* Commit the result r of the handler named op.  React state setters of an
\* unmounted component have no effect; refs and browser objects do.
Commit(op, r) ==
    /\ view' = IF mounted THEN r.view ELSE view
    /\ selectedMission' = IF mounted THEN r.selectedMission ELSE selectedMission
    /\ selectedLanguage' = IF mounted THEN r.selectedLanguage ELSE selectedLanguage
    /\ mode' = IF mounted THEN r.mode ELSE mode
    /\ sessionId' = IF mounted THEN r.sessionId ELSE sessionId
    /\ isConnected' = IF mounted THEN r.isConnected ELSE isConnected
    /\ isRecording' = IF mounted THEN r.isRecording ELSE isRecording
    /\ isMuted' = IF mounted THEN r.isMuted ELSE isMuted
    /\ transcripts' = IF mounted THEN r.transcripts ELSE transcripts
    /\ error' = IF mounted THEN r.error ELSE error
    /\ textInput' = IF mounted THEN r.textInput ELSE textInput
    /\ wsRef' = r.wsRef
    /\ mediaRecorderRef' = r.mediaRecorderRef
    /\ streamRef' = r.streamRef
    /\ chan' = r.chan
    /\ rec' = r.rec
    /\ pendingMic' = r.pendingMic
    /\ speaking' = r.speaking
    /\ requests' = r.requests
    /\ audioLog' = r.audioLog
    /\ utterance' = r.utterance
    /\ last' = [op |-> op, threw |-> r.threw, spoke |-> r.spoke,
                asked |-> r.asked]
    /\ UNCHANGED mounted


\* ---- browser objects -------------------------------------------------

\* WebSocket.send on channel c: raises InvalidStateError while the socket
\* is CONNECTING, transmits while OPEN, discards silently when CLOSING or
\* CLOSED.
wsSendThrows(s, c) == s.chan[c].st = "connecting"
wsSendTransmits(s, c) == s.chan[c].st = "open"

\* WebSocket.close on channel c: CONNECTING or OPEN becomes CLOSING, and it
\* is a no-op on a CLOSING or CLOSED socket.  closeBegun records that the
\* component has called close on the socket.
wsClose(s, c) ==
    [s EXCEPT !.chan[c].st = IF @ \in {"connecting", "open"} THEN "closing" ELSE @,
              !.chan[c].closeBegun = TRUE]

\* speechSynthesis.cancel(): drops the utterance being played.
synthCancel(s) == [s EXCEPT !.speaking = NoText]

\* String.prototype.trim on the inputs of the model.
Trim(t) == IF t = " " THEN "" ELSE t

\* ---- handlers of the component ---------------------------------------

\* Text-to-speech.  muted is the isMuted of the render whose closure runs.
speakText(s, muted, text) ==
    IF muted THEN [s EXCEPT !.asked = @ + 1]
    ELSE [synthCancel(s) EXCEPT !.speaking = text, !.spoke = TRUE,
                                !.asked = @ + 1]

\* stopRecording with setIsRecording(!isRecording) for setIsRecording(false).
stopRecording_toggle(s) ==
    LET m  == s.mediaRecorderRef
        r1 == IF m # 0 /\ s.rec[m].st = "recording"
              THEN [s.rec EXCEPT ![m].st = "inactive", ![m].flush = "onstop"]
              ELSE s.rec
        r2 == IF s.streamRef # 0
              THEN [r1 EXCEPT ![s.streamRef].live = FALSE]
              ELSE r1
    IN  [s EXCEPT !.rec = r2, !.isRecording = ~@]

\* stopRecording without the test of the recorder's state:
\* MediaRecorder.stop() raises InvalidStateError on an inactive recorder.
stopRecording_noStateTest(s) ==
    LET m  == s.mediaRecorderRef
        r1 == IF m # 0 /\ s.rec[m].st = "recording"
              THEN [s.rec EXCEPT ![m].st = "inactive", ![m].flush = "onstop"]
              ELSE s.rec
        r2 == IF s.streamRef # 0
              THEN [r1 EXCEPT ![s.streamRef].live = FALSE]
              ELSE r1
    IN  IF m # 0 /\ s.rec[m].st # "recording" THEN [s EXCEPT !.threw = TRUE]
        ELSE [s EXCEPT !.rec = r2, !.isRecording = FALSE]

\* Stop recording: stop the recorder the ref names if it is recording (its
\* onstop fires later), stop the tracks of the stream the ref names, clear
\* the flag.
stopRecording(s) ==
    LET m  == s.mediaRecorderRef
        r1 == IF m # 0 /\ s.rec[m].st = "recording"
              THEN [s.rec EXCEPT ![m].st = "inactive", ![m].flush = "onstop"]
              ELSE s.rec
        r2 == IF s.streamRef # 0
              THEN [r1 EXCEPT ![s.streamRef].live = FALSE]
              ELSE r1
    IN  [s EXCEPT !.rec = r2, !.isRecording = FALSE]

\* End session.  The send of 'end' raises on a CONNECTING socket; the
\* statements after it are then not executed.
endSession(s) ==
    LET s1 == stopRecording(s)
        s2 == synthCancel(s1)
        w  == s2.wsRef
    IN  IF w = 0 THEN [s2 EXCEPT !.view = "summary"]
        ELSE IF wsSendThrows(s2, w) THEN [s2 EXCEPT !.threw = TRUE]
        ELSE [wsClose(s2, w) EXCEPT !.view = "summary"]

\* The inbound messages of the model.
Msg(type, text, final) == [type |-> type, text |-> text, is_final |-> final]
Messages ==
    {Msg(ty, "", FALSE) : ty \in {"connected", "turn_complete", "session_ended", "unknown"}}
    \cup {Msg("input_transcript", tx, f) : tx \in MsgTexts, f \in BOOLEAN}
    \cup {Msg(ty, tx, FALSE) : ty \in {"output_transcript", "text"}, tx \in MsgTexts \cup {""}}
    \cup {Msg("error", "server error", FALSE)}

Entry(role, text) == [role |-> role, text |-> text]

\* handleWebSocketMessage pushing the user entry whether or not the
\* message is final.
handleWebSocketMessage_pushInterim(s, muted, msg) ==
    CASE msg.type = "connected" -> s
      [] msg.type = "input_transcript" ->
            [s EXCEPT !.transcripts = Append(@, Entry("user", msg.text))]
      [] msg.type \in {"output_transcript", "text"} ->
            IF msg.text # ""
            THEN speakText([s EXCEPT !.transcripts = Append(@, Entry("assistant", msg.text))],
                           muted, msg.text)
            ELSE s
      [] msg.type = "turn_complete" -> s
      [] msg.type = "error" -> [s EXCEPT !.error = msg.text]
      [] msg.type = "session_ended" -> [s EXCEPT !.view = "summary"]
      [] OTHER -> s

\* handleWebSocketMessage without the test of text: an assistant message
\* is appended and spoken whatever its text.
handleWebSocketMessage_anyText(s, muted, msg) ==
    CASE msg.type = "connected" -> s
      [] msg.type = "input_transcript" ->
            IF msg.is_final
            THEN [s EXCEPT !.transcripts = Append(@, Entry("user", msg.text))]
            ELSE s
      [] msg.type \in {"output_transcript", "text"} ->
            speakText([s EXCEPT !.transcripts = Append(@, Entry("assistant", msg.text))],
                      muted, msg.text)
      [] msg.type = "turn_complete" -> s
      [] msg.type = "error" -> [s EXCEPT !.error = msg.text]
      [] msg.type = "session_ended" -> [s EXCEPT !.view = "summary"]
      [] OTHER -> s

\* handleWebSocketMessage treating an error message as the end of the
\* session.
handleWebSocketMessage_errorFatal(s, muted, msg) ==
    CASE msg.type = "connected" -> s
      [] msg.type = "input_transcript" ->
            IF msg.is_final
            THEN [s EXCEPT !.transcripts = Append(@, Entry("user", msg.text))]
            ELSE s
      [] msg.type \in {"output_transcript", "text"} ->
            IF msg.text # ""
            THEN speakText([s EXCEPT !.transcripts = Append(@, Entry("assistant", msg.text))],
                           muted, msg.text)
            ELSE s
      [] msg.type = "turn_complete" -> s
      [] msg.type = "error" -> [s EXCEPT !.error = msg.text, !.view = "summary"]
      [] msg.type = "session_ended" -> [s EXCEPT !.view = "summary"]
      [] OTHER -> s

\* handleWebSocketMessage cancelling playback when the turn completes.
handleWebSocketMessage_turnCancels(s, muted, msg) ==
    CASE msg.type = "connected" -> s
      [] msg.type = "input_transcript" ->
            IF msg.is_final
            THEN [s EXCEPT !.transcripts = Append(@, Entry("user", msg.text))]
            ELSE s
      [] msg.type \in {"output_transcript", "text"} ->
            IF msg.text # ""
            THEN speakText([s EXCEPT !.transcripts = Append(@, Entry("assistant", msg.text))],
                           muted, msg.text)
            ELSE s
      [] msg.type = "turn_complete" -> synthCancel(s)
      [] msg.type = "error" -> [s EXCEPT !.error = msg.text]
      [] msg.type = "session_ended" -> [s EXCEPT !.view = "summary"]
      [] OTHER -> s

\* Handle incoming WebSocket messages.  muted is the isMuted captured by
\* the closure that ws.onmessage was built from.
handleWebSocketMessage(s, muted, msg) ==
    CASE msg.type = "connected" -> s
      [] msg.type = "input_transcript" ->
            IF msg.is_final
            THEN [s EXCEPT !.transcripts = Append(@, Entry("user", msg.text))]
            ELSE s
      [] msg.type \in {"output_transcript", "text"} ->
            IF msg.text # ""
            THEN speakText([s EXCEPT !.transcripts = Append(@, Entry("assistant", msg.text))],
                           muted, msg.text)
            ELSE s
      [] msg.type = "turn_complete" -> s
      [] msg.type = "error" -> [s EXCEPT !.error = msg.text]
      [] msg.type = "session_ended" -> [s EXCEPT !.view = "summary"]
      [] OTHER -> s

\* sendTextMessage putting the new entry first: [entry, ...prev].
sendTextMessage_prepend(s) ==
    IF Trim(s.textInput) = "" \/ s.wsRef = 0 THEN s
    ELSE IF wsSendThrows(s, s.wsRef) THEN [s EXCEPT !.threw = TRUE]
    ELSE [s EXCEPT !.transcripts = <<Entry("user", s.textInput)>> \o @,
                   !.textInput = ""]

\* Send text message (fallback).
sendTextMessage(s) ==
    IF Trim(s.textInput) = "" \/ s.wsRef = 0 THEN s
    ELSE IF wsSendThrows(s, s.wsRef) THEN [s EXCEPT !.threw = TRUE]
    ELSE [s EXCEPT !.transcripts = Append(@, Entry("user", s.textInput)),
                   !.textInput = ""]

\* ws.onopen, ws.onerror, ws.onclose as installed by startSession.
wsOnOpen(s)  == [s EXCEPT !.isConnected = TRUE, !.view = "active"]
wsOnError(s) == [s EXCEPT !.error = "Connection error"]
wsOnClose(s) == [s EXCEPT !.isConnected = FALSE, !.isRecording = FALSE]

\* reader.onloadend testing wsRef.current only, not its readyState.
readerOnLoadEnd_noReadyState(s, r) ==
    LET w == s.wsRef IN
    IF w # 0
    THEN [s EXCEPT !.rec[r].flush = "sent",
                   !.audioLog = @ \cup {[ch |-> w, view |-> s.view,
                                         closeBegun |-> s.chan[w].closeBegun,
                                         session |-> s.rec[r].session]}]
    ELSE [s EXCEPT !.rec[r].flush = "dropped"]

\* reader.onloadend of recorder r: the audio goes out only on an OPEN
\* socket.  audioLog keeps where and when each 'audio' send was made.
readerOnLoadEnd(s, r) ==
    LET w == s.wsRef IN
    IF w # 0 /\ s.chan[w].st = "open"
    THEN [s EXCEPT !.rec[r].flush = "sent",
                   !.audioLog = @ \cup {[ch |-> w, view |-> s.view,
                                         closeBegun |-> s.chan[w].closeBegun,
                                         session |-> s.rec[r].session]}]
    ELSE [s EXCEPT !.rec[r].flush = "dropped"]

\* The restart button without setTranscripts([]).
restart_keepsTranscript(s) ==
    [s EXCEPT !.view = "setup", !.selectedMission = NoMission]

\* The restart button of the summary view.
restart(s) ==
    [s EXCEPT !.view = "setup", !.transcripts = <<>>, !.selectedMission = NoMission]

\* Cleanup on unmount.
unmountCleanup(s) ==
    LET s1 == stopRecording(s)
        s2 == IF s1.wsRef # 0 THEN wsClose(s1, s1.wsRef) ELSE s1
    IN  synthCancel(s2)


\* ---- actions: the setup view -----------------------------------------

UserReady == mounted

\* MissionCard onSelect.
SelectMission ==
    /\ UserReady /\ view = "setup"
    /\ \E m \in Missions :
          /\ m # selectedMission
          /\ Commit("selectMission", [S EXCEPT !.selectedMission = m])

\* Language button.
SelectLanguage ==
    /\ UserReady /\ view = "setup"
    /\ \E l \in Languages :
          /\ l # selectedLanguage
          /\ Commit("selectLanguage", [S EXCEPT !.selectedLanguage = l])

\* Mode button.
SelectMode ==
    /\ UserReady /\ view = "setup"
    /\ \E m \in Modes :
          /\ m # mode
          /\ Commit("selectMode", [S EXCEPT !.mode = m])

\* The next WebSocket slot not yet used by a startSession invocation.
FreeChannels == {c \in Channels : chan[c].st = "none"}

\* The body of the setup request with the language's code for its name.
SetupBody_languageCode(s) ==
    [mission_id |-> s.selectedMission, language |-> s.selectedLanguage.code,
     from_language |-> "English", mode |-> s.mode]

\* The body of the setup request startSession posts.
SetupBody(s) ==
    [mission_id |-> s.selectedMission, language |-> s.selectedLanguage.name,
     from_language |-> "English", mode |-> s.mode]

\* The Start Mission button never disabled.
StartSession_noGate ==
    /\ UserReady /\ view = "setup"
    /\ FreeChannels # {}
    /\ LET c == CHOOSE x \in FreeChannels : \A y \in FreeChannels : x <= y
       IN  Commit("startSession",
                  [S EXCEPT !.error = NoError,
                            !.requests = @ \cup {SetupBody(S)},
                            !.chan[c] = [st |-> "fetching", capMuted |-> isMuted,
                                         closeBegun |-> FALSE, ended |-> FALSE]])

\* startSession up to the await of fetch: clears the error and issues the
\* setup request.  The closures later installed on the socket are those of
\* this render, so they see this render's isMuted.
\* The Start Mission button is disabled while no mission is selected.
StartSession ==
    /\ UserReady /\ view = "setup" /\ selectedMission # NoMission
    /\ FreeChannels # {}
    /\ LET c == CHOOSE x \in FreeChannels : \A y \in FreeChannels : x <= y
       IN  Commit("startSession",
                  [S EXCEPT !.error = NoError,
                            !.requests = @ \cup {SetupBody(S)},
                            !.chan[c] = [st |-> "fetching", capMuted |-> isMuted,
                                         closeBegun |-> FALSE, ended |-> FALSE]])

\* startSession after the await: the response is OK; the socket is created
\* (CONNECTING) and stored in wsRef.
FetchOk(c) ==
    /\ chan[c].st = "fetching"
    /\ Commit("fetchOk", [S EXCEPT !.sessionId = c, !.chan[c].st = "connecting",
                                   !.wsRef = c])

\* startSession going on to create the socket after a failed setup call.
FetchFail_thenSocket(c) ==
    /\ chan[c].st = "fetching"
    /\ Commit("fetchFail", [S EXCEPT !.error = "Failed to create session",
                                     !.chan[c].st = "connecting", !.wsRef = c])

\* startSession after the await: the fetch failed or the response is not
\* OK; the catch block surfaces the error.
FetchFail(c) ==
    /\ chan[c].st = "fetching"
    /\ Commit("fetchFail", [S EXCEPT !.error = "Failed to create session",
                                     !.chan[c].st = "failed"])

\* ---- actions: channel events -----------------------------------------

\* The socket opens.
ChanOpen(c) ==
    /\ chan[c].st = "connecting"
    /\ Commit("wsOnOpen", wsOnOpen([S EXCEPT !.chan[c].st = "open"]))

\* The connection fails: the socket is CLOSED, then error and close are
\* fired in turn.
ChanFail(c) ==
    /\ chan[c].st \in {"connecting", "open", "closing"}
    /\ Commit("wsOnError", wsOnClose(wsOnError([S EXCEPT !.chan[c].st = "closed"])))

\* The connection closes cleanly.
ChanClose(c) ==
    /\ chan[c].st \in {"open", "closing"}
    /\ Commit("wsOnClose", wsOnClose([S EXCEPT !.chan[c].st = "closed"]))

\* The server's run of input_transcript messages after msg: the non-final
\* ones since the last final one, and whether the final one has come.
Heard(u, msg) ==
    IF msg.type # "input_transcript" THEN u
    ELSE IF msg.is_final THEN [u EXCEPT !.done = TRUE]
    ELSE [partials |-> IF u.done THEN 1 ELSE u.partials + 1, done |-> FALSE]

\* A message of msgs arrives on an OPEN socket; ws.onmessage runs the
\* handler of the render that installed it.  The server announces the end
\* of a session at most once (ended).
ChanMessageIn(c, msgs) ==
    /\ chan[c].st = "open"
    /\ \E msg \in msgs :
          LET s0 == [S EXCEPT !.chan[c].ended = @ \/ msg.type = "session_ended",
                              !.utterance = Heard(@, msg)]
              r  == handleWebSocketMessage(s0, chan[c].capMuted, msg)
          IN  /\ msg.type = "session_ended" => ~chan[c].ended
              /\ Len(r.transcripts) <= MaxTranscript
              /\ r.utterance.partials <= MaxPartials
              /\ Commit(msg.type, r)

\* ---- actions: the active view ----------------------------------------

\* The mute toggle button.
ToggleMute ==
    /\ UserReady /\ view = "active"
    /\ Commit("toggleMute", [S EXCEPT !.isMuted = ~isMuted])

\* The End button.
EndSession ==
    /\ UserReady /\ view = "active"
    /\ Commit("endSession", endSession(S))

\* The text input's onChange.
TypeText ==
    /\ UserReady /\ view = "active"
    /\ \E t \in Inputs :
          /\ t # textInput
          /\ Commit("typeText", [S EXCEPT !.textInput = t])

\* The send button (disabled on blank input) or the Enter key.
SendTextMessage ==
    /\ UserReady /\ view = "active"
    /\ LET r == sendTextMessage(S)
       IN  /\ Len(r.transcripts) <= MaxTranscript
           /\ Commit("sendTextMessage", r)

FreeRecorders == {r \in Recorders : rec[r].st = "none"}

\* The getUserMedia requests made so far: granted ones and pending ones.
RecordersUsed == Cardinality(Recorders \ FreeRecorders) + pendingMic

\* The startSession invocations made so far.
ChannelsUsed == Cardinality(Channels \ FreeChannels)

\* The mic button while isRecording is false: startRecording up to the
\* await of getUserMedia.
StartRecording ==
    /\ UserReady /\ view = "active" /\ ~isRecording
    /\ RecordersUsed < MaxRecorders
    /\ Commit("startRecording", [S EXCEPT !.pendingMic = @ + 1])


\* startRecording after the await: permission granted.  The stream and the
\* recorder overwrite the refs; the recorder starts.
MicGranted ==
    /\ pendingMic > 0 /\ FreeRecorders # {}
    /\ LET r == CHOOSE x \in FreeRecorders : \A y \in FreeRecorders : x <= y
       IN  Commit("micGranted",
                  [S EXCEPT !.pendingMic = @ - 1, !.streamRef = r,
                            !.mediaRecorderRef = r,
                            !.rec[r] = [st |-> "recording", live |-> TRUE,
                                        flush |-> "none",
                                        session |-> sessionId],
                            !.isRecording = TRUE])

\* The catch block of startRecording falling through to
\* setIsRecording(true).
MicDenied_thenRecording ==
    /\ pendingMic > 0
    /\ Commit("micDenied", [S EXCEPT !.pendingMic = @ - 1,
                                     !.error = "Microphone access denied",
                                     !.isRecording = TRUE])

\* startRecording after the await: permission denied.
MicDenied ==
    /\ pendingMic > 0
    /\ Commit("micDenied", [S EXCEPT !.pendingMic = @ - 1,
                                     !.error = "Microphone access denied"])

\* The mic button while isRecording is true.
StopRecording ==
    /\ UserReady /\ view = "active" /\ isRecording
    /\ Commit("stopRecording", stopRecording(S))

\* mediaRecorder.onstop: builds the blob and starts the FileReader.
RecorderOnStop(r) ==
    /\ rec[r].flush = "onstop"
    /\ Commit("recorderOnStop", [S EXCEPT !.rec[r].flush = "reading"])

\* reader.onloadend.
ReaderOnLoadEnd(r) ==
    /\ rec[r].flush = "reading"
    /\ Commit("readerOnLoadEnd", readerOnLoadEnd(S, r))

\* The utterance being played ends by itself.
UtteranceEnd ==
    /\ speaking # NoText
    /\ Commit("utteranceEnd", synthCancel(S))

\* ---- actions: the summary view ---------------------------------------

\* Try Another Mission.
Restart ==
    /\ UserReady /\ view = "summary"
    /\ Commit("restart", restart(S))

\* onClose (the X of the setup view, Back to Chat of the summary view)
\* unmounts the component; the effect cleanup runs.
Unmount ==
    /\ UserReady /\ view \in {"setup", "summary"}
    /\ LET r == unmountCleanup(S)
       IN  /\ wsRef' = r.wsRef /\ mediaRecorderRef' = r.mediaRecorderRef
           /\ streamRef' = r.streamRef /\ chan' = r.chan /\ rec' = r.rec
           /\ pendingMic' = r.pendingMic /\ speaking' = r.speaking
           /\ audioLog' = r.audioLog /\ utterance' = r.utterance
           /\ requests' = r.requests
    /\ mounted' = FALSE
    /\ last' = [op |-> "unmount", threw |-> FALSE, spoke |-> FALSE, asked |-> 0]
    /\ UNCHANGED <<view, selectedMission, selectedLanguage, mode, sessionId,
                   isConnected, isRecording, isMuted, transcripts, error,
                   textInput>>

\* ---- the session specification --------------------------------------
\* Two sessions, one recording; the server ends sessions and sends
\* assistant lines.

SessionMsgs == {Msg("session_ended", "", FALSE), Msg("output_transcript", "a", FALSE)}

Next ==
    \/ SelectMission
    \/ StartSession
    \/ \E c \in Channels : FetchOk(c)
    \/ \E c \in Channels : FetchFail(c)
    \/ \E c \in Channels : ChanOpen(c)
    \/ \E c \in Channels : ChanFail(c)
    \/ \E c \in Channels : ChanClose(c)
    \/ \E c \in Channels : ChanMessageIn(c, SessionMsgs)
    \/ ToggleMute
    \/ EndSession
    \/ (RecordersUsed < SessionRecorders /\ StartRecording)
    \/ MicGranted
    \/ MicDenied
    \/ StopRecording
    \/ \E r \in Recorders : RecorderOnStop(r)
    \/ \E r \in Recorders : ReaderOnLoadEnd(r)
    \/ UtteranceEnd
    \/ Restart

Spec == Init /\ [][Next]_vars


\* ---- the capture specification --------------------------------------
\* One session, several recordings; the server may end the session.

EndMsgs == {Msg("session_ended", "", FALSE)}

NextCapture ==
    \/ SelectMission
    \/ (ChannelsUsed < CaptureChannels /\ StartSession)
    \/ \E c \in Channels : FetchOk(c)
    \/ \E c \in Channels : ChanOpen(c)
    \/ \E c \in Channels : ChanFail(c)
    \/ \E c \in Channels : ChanClose(c)
    \/ \E c \in Channels : ChanMessageIn(c, EndMsgs)
    \/ EndSession
    \/ StartRecording
    \/ MicGranted
    \/ MicDenied
    \/ StopRecording
    \/ \E r \in Recorders : RecorderOnStop(r)
    \/ \E r \in Recorders : ReaderOnLoadEnd(r)
    \/ Restart

SpecCapture == Init /\ [][NextCapture]_vars

\* ---- the end-of-session specification -------------------------------
\* Few sessions and recordings, assistant lines being spoken, no errors:
\* what endSession has to clean up.

NextEnd ==
    \/ SelectMission
    \/ (ChannelsUsed < CaptureChannels /\ StartSession)
    \/ \E c \in Channels : FetchOk(c)
    \/ \E c \in Channels : ChanOpen(c)
    \/ \E c \in Channels : ChanClose(c)
    \/ \E c \in Channels : ChanMessageIn(c, SessionMsgs)
    \/ EndSession
    \/ (RecordersUsed < SessionRecorders /\ StartRecording)
    \/ MicGranted
    \/ StopRecording
    \/ \E r \in Recorders : RecorderOnStop(r)
    \/ \E r \in Recorders : ReaderOnLoadEnd(r)
    \/ UtteranceEnd
    \/ Restart

SpecEnd == Init /\ [][NextEnd]_vars

\* ---- the transcript specification -----------------------------------
\* The first session only, every inbound message type, typed text; no
\* capture.

NextTranscript ==
    \/ SelectMission
    \/ (FreeChannels = Channels /\ StartSession)
    \/ \E c \in Channels : FetchOk(c)
    \/ \E c \in Channels : ChanOpen(c)
    \/ \E c \in Channels : ChanClose(c)
    \/ \E c \in Channels : ChanMessageIn(c, Messages)
    \/ TypeText
    \/ SendTextMessage
    \/ EndSession
    \/ Restart

SpecTranscript == Init /\ [][NextTranscript]_vars

\* ---- the speech specification ---------------------------------------
\* Sessions one after another, the mute toggle, assistant messages with
\* and without text; no capture, no typed text.

\* The startSession invocations whose socket is awaited, connecting or
\* open.
SessionsInProgress ==
    {c \in Channels : chan[c].st \in {"fetching", "connecting", "open"}}

AssistantMsgs ==
    {Msg(ty, tx, FALSE) : ty \in {"output_transcript", "text"}, tx \in MsgTexts \cup {""}}

NextSpeech ==
    \/ SelectMission
    \/ (SessionsInProgress = {} /\ StartSession)
    \/ \E c \in Channels : FetchOk(c)
    \/ \E c \in Channels : ChanOpen(c)
    \/ \E c \in Channels : ChanClose(c)
    \/ \E c \in Channels : ChanMessageIn(c, AssistantMsgs)
    \/ ToggleMute
    \/ EndSession
    \/ UtteranceEnd
    \/ Restart

SpecSpeech == Init /\ [][NextSpeech]_vars

\* ---- the setup specification ----------------------------------------
\* Sessions one after another, every choice of the setup view, setup
\* calls and connections that fail; no capture, no messages.

NextSetup ==
    \/ SelectMission
    \/ SelectLanguage
    \/ SelectMode
    \/ (SessionsInProgress = {} /\ StartSession)
    \/ \E c \in Channels : FetchOk(c)
    \/ \E c \in Channels : FetchFail(c)
    \/ \E c \in Channels : ChanOpen(c)
    \/ \E c \in Channels : ChanFail(c)
    \/ \E c \in Channels : ChanClose(c)
    \/ EndSession
    \/ Restart

SpecSetup == Init /\ [][NextSetup]_vars

\* ---- the restart specification --------------------------------------
\* Sessions one after another with every choice of the setup view and
\* assistant lines in the transcript; the user or the server ends them.

NextRestart ==
    \/ SelectMission
    \/ SelectLanguage
    \/ SelectMode
    \/ (SessionsInProgress = {} /\ StartSession)
    \/ \E c \in Channels : FetchOk(c)
    \/ \E c \in Channels : ChanOpen(c)
    \/ \E c \in Channels : ChanMessageIn(c, SessionMsgs)
    \/ EndSession
    \/ Restart

SpecRestart == Init /\ [][NextRestart]_vars

\* ---- the barge-in specification -------------------------------------
\* Sessions that the server ends, the mute toggle, assistant messages of
\* different texts; no capture.

SpokenMsgs == AssistantMsgs \cup EndMsgs

NextBargeIn ==
    \/ SelectMission
    \/ StartSession
    \/ \E c \in Channels : FetchOk(c)
    \/ \E c \in Channels : ChanOpen(c)
    \/ \E c \in Channels : ChanMessageIn(c, SpokenMsgs)
    \/ ToggleMute
    \/ UtteranceEnd
    \/ Restart

SpecBargeIn == Init /\ [][NextBargeIn]_vars

\* ---- the unmount specification --------------------------------------
\* The end-of-session specification with the component being closed
\* from the setup view or the summary view.

NextUnmount ==
    \/ NextEnd
    \/ Unmount

SpecUnmount == Init /\ [][NextUnmount]_vars

\* ---- the advisory specification -------------------------------------
\* The first session, one recording, assistant lines being spoken, and
\* the server's connected and turn_complete notices.

AdvisoryMsgs == {Msg("connected", "", FALSE), Msg("turn_complete", "", FALSE)}
LineMsgs     == {Msg("output_transcript", "a", FALSE)}

NextAdvisory ==
    \/ SelectMission
    \/ (ChannelsUsed < CaptureChannels /\ StartSession)
    \/ \E c \in Channels : FetchOk(c)
    \/ \E c \in Channels : ChanOpen(c)
    \/ \E c \in Channels : ChanClose(c)
    \/ \E c \in Channels : ChanMessageIn(c, AdvisoryMsgs \cup LineMsgs)
    \/ EndSession
    \/ (RecordersUsed < SessionRecorders /\ StartRecording)
    \/ MicGranted
    \/ StopRecording
    \/ \E r \in Recorders : RecorderOnStop(r)
    \/ \E r \in Recorders : ReaderOnLoadEnd(r)
    \/ UtteranceEnd

SpecAdvisory == Init /\ [][NextAdvisory]_vars

\* ---- the error specification ----------------------------------------
\* One session, one recording, and everything that sets the error:
\* failed setup calls, failed connections, denied permissions, inbound
\* error messages.

ErrorMsgs == {Msg("error", "server error", FALSE)}

NextErrors ==
    \/ SelectMission
    \/ (ChannelsUsed < CaptureChannels /\ StartSession)
    \/ \E c \in Channels : FetchOk(c)
    \/ \E c \in Channels : FetchFail(c)
    \/ \E c \in Channels : ChanOpen(c)
    \/ \E c \in Channels : ChanFail(c)
    \/ \E c \in Channels : ChanClose(c)
    \/ \E c \in Channels : ChanMessageIn(c, ErrorMsgs)
    \/ EndSession
    \/ (RecordersUsed < SessionRecorders /\ StartRecording)
    \/ MicGranted
    \/ MicDenied
    \/ StopRecording
    \/ \E r \in Recorders : RecorderOnStop(r)
    \/ \E r \in Recorders : ReaderOnLoadEnd(r)
    \/ Restart

SpecErrors == Init /\ [][NextErrors]_vars

\* ---- the end-of-session specification, with fairness ---------------
\* The event loop runs every callback that is due: a setup response and
\* a connection attempt settle, a closing socket closes, onstop and
\* onloadend fire, an utterance ends.  The user and the server are under
\* no obligation to act.

Scheduled ==
    /\ \A c \in Channels :
          /\ WF_vars(FetchOk(c))
          /\ WF_vars(ChanOpen(c))
          /\ WF_vars(chan[c].st = "closing" /\ ChanClose(c))
    /\ \A r \in Recorders :
          /\ WF_vars(RecorderOnStop(r))
          /\ WF_vars(ReaderOnLoadEnd(r))
    /\ WF_vars(UtteranceEnd)

SpecEndFair == Init /\ [][NextEnd]_vars /\ Scheduled

\* ---- claims about the session lifecycle ------------------------------

\* C1: the view never goes from setup to summary directly: every step that
\* sets view to summary starts where view is active (or already summary).
C1_SummaryOnlyFromActive ==
    [][view' = "summary" => view \in {"active", "summary"}]_vars

\* C2: the only view transitions are setup->active, active->summary and
\* summary->setup; in particular, once view is summary the only change it
\* makes is to setup.  Stated on the steps that leave summary (the steps
\* that leave setup for summary are C1's).
C2_SummaryOnlyToSetup ==
    [][view = "summary" => view' \in {"summary", "setup"}]_vars

\* The recorders recording, and the microphone streams live.
Recording   == {r \in Recorders : rec[r].st = "recording"}
LiveStreams == {r \in Recorders : rec[r].live}

\* C3: after an inbound session_ended has been handled, the recorder is
\* stopped, the microphone stream is released, playback is cancelled and
\* view is summary.
C3_SessionEndedCleansUp ==
    last.op = "session_ended" =>
        /\ Recording = {}
        /\ LiveStreams = {}
        /\ speaking = NoText
        /\ view = "summary"

\* What the user can observe of a state: view, recording flag, microphone
\* held, playback, channel states, transcript.
Obs(s) ==
    [view |-> s.view, isRecording |-> s.isRecording,
     mic |-> {r \in Recorders : s.rec[r].live},
     capture |-> {r \in Recorders : s.rec[r].st = "recording"},
     speaking |-> s.speaking,
     chan |-> [c \in Channels |-> s.chan[c].st],
     transcripts |-> s.transcripts]

\* C4: endSession is idempotent: from every reachable state, invoking it
\* twice in succession yields the same observable state as invoking it once.
C4_EndSessionIdempotent ==
    Obs(endSession(endSession(S))) = Obs(endSession(S))

\* C4 witness: endSession has run with a capture and an utterance to stop
\* and an open channel to close, and running it again changes nothing seen.
C4_Witness ==
    /\ last.op = "endSession"
    /\ view = "summary"
    /\ wsRef # 0 /\ chan[wsRef].st = "closing"
    /\ \E r \in Recorders : rec[r].flush = "onstop"
    /\ Obs(endSession(S)) = Obs(S)

\* C5: whatever the state of the channel wsRef names, endSession completes
\* without raising and leaves view = summary.
C5_EndSessionNeverRaises ==
    last.op = "endSession" => ~last.threw /\ view = "summary"

C8_MuteSilencesSpeech ==
    last.op \in {"output_transcript", "text"} => (last.spoke <=> ~isMuted)

\* C9: right after the mute toggle has set isMuted to true, no utterance is
\* playing.
C9_MuteCancelsPlayback ==
    (last.op = "toggleMute" /\ isMuted) => speaking = NoText


\* ---- claims about capture -------------------------------------------

\* C7: after any invocation of endSession no microphone stream acquired by
\* the component is still live and no utterance is playing, also when the
\* send of 'end' raises.
C7_EndSessionReleasesAll ==
    last.op = "endSession" => LiveStreams = {} /\ speaking = NoText

\* ---- claims about the transcript -------------------------------------

\* C10: a non-final input_transcript message leaves the transcript
\* unchanged, and a final one appends exactly one user entry carrying its
\* text: a run of non-final messages followed by a final one appends
\* exactly one entry, the final one's.
C10_OnlyFinalIsAppended ==
    [][last'.op = "input_transcript" =>
          \A c \in Channels, tx \in MsgTexts, f \in BOOLEAN :
              ChanMessageIn(c, {Msg("input_transcript", tx, f)}) =>
                  transcripts' = IF f THEN Append(transcripts, Entry("user", tx))
                                 ELSE transcripts]_vars

\* C10 witness: two non-final messages and then a final one carrying "b"
\* have been handled, and the transcript holds the one entry.
C10_Witness ==
    /\ last.op = "input_transcript"
    /\ utterance = [partials |-> MaxPartials, done |-> TRUE]
    /\ transcripts = <<Entry("user", "b")>>

C12_TranscriptAppendOnly ==
    [][last'.op # "restart" =>
          \/ transcripts' = transcripts
          \/ /\ Len(transcripts') = Len(transcripts) + 1
             /\ SubSeq(transcripts', 1, Len(transcripts)) = transcripts]_vars

\* C12 witness: an inbound assistant message and then a typed message
\* have been handled, and the transcript holds them in that order.
C12_Witness ==
    /\ last.op = "sendTextMessage"
    /\ transcripts = <<Entry("assistant", "b"), Entry("user", "a")>>

\* C13: every 'audio' message is sent in a state where view is active,
\* never in setup or summary.
C13_AudioOnlyWhileActive ==
    \A e \in audioLog : e.view = "active"

\* C14: every stop of an active recording results in one 'audio' message
\* carrying that recording, never zero: no recording's flush ends
\* without the message having been sent.
C14_EveryStopFlushes ==
    \A r \in Recorders : rec[r].flush # "dropped"

\* C15: at most one microphone stream is held at a time, and every stream
\* held is the one streamRef names (none has become unreachable by being
\* overwritten).
C15_OneStreamHeld ==
    /\ Cardinality(LiveStreams) <= 1
    /\ \A r \in LiveStreams : streamRef = r

\* C16: when microphone permission is denied, startRecording leaves view,
\* the recording flag and the transcript unchanged and sets the error;
\* it creates no stream and no recorder and sends nothing, so no 'audio'
\* message can follow from the attempt.
C16_MicDeniedChangesNothing ==
    [][MicDenied =>
          /\ view' = view /\ isRecording' = isRecording
          /\ transcripts' = transcripts
          /\ error' = "Microphone access denied"
          /\ rec' = rec /\ streamRef' = streamRef
          /\ mediaRecorderRef' = mediaRecorderRef
          /\ audioLog' = audioLog]_vars

\* C16 witness: the first permission request of an active session has
\* been denied: the error is set, nothing records, nothing was sent.
C16_Witness ==
    /\ last.op = "micDenied"
    /\ error = "Microphone access denied"
    /\ view = "active" /\ ~isRecording
    /\ \A r \in Recorders : rec[r] = NoRec
    /\ audioLog = {}

\* ---- claims about setup ---------------------------------------------

C18_NoRequestWithoutMission ==
    \A q \in requests : q.mission_id # NoMission

\* C18 witness: Start Mission has just issued a setup request.
C18_Witness ==
    /\ last.op = "startSession"
    /\ SetupBody(S) \in requests
    /\ \E c \in Channels : chan[c].st = "fetching"

\* The sockets created by the component that are CONNECTING or OPEN.
LiveChannels == {c \in Channels : chan[c].st \in {"connecting", "open"}}

\* C19: at most one channel created by the component is connecting or
\* open at a time.
C19_OneLiveChannel ==
    Cardinality(LiveChannels) <= 1

\* ---- claims about outbound messages --------------------------------

\* C20: an 'audio' or 'text' message attempted while the channel is not
\* open reports a failure: the step that drops the recording sets the
\* error, and the step that sends typed text on a socket that is not
\* OPEN raises or sets the error.
C20_NoSilentDrop ==
    [][/\ \A r \in Recorders :
             (ReaderOnLoadEnd(r) /\ rec'[r].flush = "dropped") => error' # NoError
       /\ (SendTextMessage /\ Trim(textInput) # "" /\ wsRef # 0
              /\ chan[wsRef].st # "open") =>
             (last'.threw \/ error' # NoError)]_vars

\* ---- claims about inbound dispatch ----------------------------------

\* C21: an inbound message of a type that is not enumerated is reported:
\* handling it sets the error, and leaves view, transcript, recording
\* flag and channel unchanged.
C21_UnknownTypeReported ==
    [][\A c \in Channels :
          ChanMessageIn(c, {Msg("unknown", "", FALSE)}) =>
              /\ error' # NoError
              /\ view' = view /\ transcripts' = transcripts
              /\ isRecording' = isRecording /\ chan'[c].st = chan[c].st]_vars

\* C22: whenever the session's channel is closed while view is active,
\* view eventually becomes summary.
C22_ClosedLeadsToSummary ==
    (view = "active" /\ wsRef # 0 /\ chan[wsRef].st = "closed") ~> (view = "summary")

\* C23: an inbound error message and a channel error event are non-fatal:
\* handling the message sets the error and leaves view, transcript,
\* recording flag and the channel's open state unchanged, and ws.onerror
\* changes nothing but the error.
C23_ErrorsAreNonFatal ==
    [][/\ \A c \in Channels :
             ChanMessageIn(c, ErrorMsgs) =>
                 /\ error' = "server error"
                 /\ view' = view /\ transcripts' = transcripts
                 /\ isRecording' = isRecording /\ chan'[c].st = "open"
       /\ wsOnError(S).error = "Connection error"
       /\ [wsOnError(S) EXCEPT !.error = error] = S]_vars

\* C23 witness: an error message has been handled while recording in the
\* active view: the error is set, the recording and the channel go on.
C23_Witness ==
    /\ last.op = "error" /\ error = "server error"
    /\ view = "active" /\ isRecording
    /\ wsRef # 0 /\ chan[wsRef].st = "open"
    /\ wsOnError(S).view = "active" /\ wsOnError(S).isRecording

\* C24: restart is enabled only when view is summary; it sets view to
\* setup, empties the transcript and clears the selected mission, and
\* leaves the selected language and mode unchanged.
C24_RestartEffect ==
    [][Restart =>
          /\ view = "summary" /\ view' = "setup"
          /\ transcripts' = <<>>
          /\ selectedMission' = NoMission
          /\ selectedLanguage' = selectedLanguage /\ mode' = mode]_vars

\* C24 witness: a session held in Spanish and in immersive mode has been
\* restarted: the setup view has no mission and an empty transcript, and
\* keeps the language and the mode.
C24_Witness ==
    /\ last.op = "restart"
    /\ view = "setup" /\ transcripts = <<>> /\ selectedMission = NoMission
    /\ selectedLanguage.name = "Spanish" /\ mode = "immersive"
    /\ SetupBody([S EXCEPT !.selectedMission = "m1"]) \in requests

\* ---- claims about playback ------------------------------------------

\* The text of the last assistant entry of the transcript t, NoText when
\* it has none.
LastAssistant(t) ==
    LET I == {i \in 1..Len(t) : t[i].role = "assistant"}
    IN  IF I = {} THEN NoText
        ELSE t[CHOOSE i \in I : \A j \in I : j <= i].text

\* C25: the synthesizer holds at most one utterance (every speak follows
\* a cancel), and it is the text of the most recently accepted assistant
\* message: whenever an utterance is playing and the transcript has an
\* assistant entry, the utterance is the last such entry's text.
C25_NewestTurnIsPlaying ==
    (speaking # NoText /\ LastAssistant(transcripts) # NoText) =>
        speaking = LastAssistant(transcripts)

\* C26: the body of the setup request is the selection at the moment
\* startSession is invoked: the selected mission's id, the selected
\* language's display name, the selected mode, and English as
\* from_language.
C26_PayloadIsSelection ==
    [][StartSession =>
          requests' = requests \cup
              {[mission_id |-> selectedMission,
                language |-> selectedLanguage.name,
                from_language |-> "English",
                mode |-> mode]}]_vars

\* C26 witness: a setup request for Spanish in immersive mode has just
\* been issued, after one for English in teacher mode.
C26_Witness ==
    /\ last.op = "startSession"
    /\ selectedLanguage.code = "es" /\ mode = "immersive"
    /\ requests = {[mission_id |-> "m1", language |-> "English",
                    from_language |-> "English", mode |-> "teacher"],
                   [mission_id |-> "m1", language |-> "Spanish",
                    from_language |-> "English", mode |-> "immersive"]}

\* ---- claims about closing the component ------------------------------

\* C27: once the component is unmounted, no microphone stream acquired by
\* it is live, no channel created by it is connecting or open, and no
\* utterance is playing.
C27_UnmountReleasesAll ==
    ~mounted => (LiveStreams = {} /\ LiveChannels = {} /\ speaking = NoText)

\* ---- claims about what is rendered ----------------------------------

\* The text of the error banner in the rendered view: only the setup
\* view's render has one.
ErrorBanner ==
    IF view = "setup" /\ error # NoError THEN error ELSE NoError

\* C28: an error set while view is active is visible in the rendered
\* view: whenever view is active and the error is set, the render shows
\* it.
C28_ErrorVisibleWhileActive ==
    (view = "active" /\ error # NoError) => ErrorBanner = error

\* ---- claims about entering the active view --------------------------

C30_StopWhenIdleIsNoOp ==
    (~isRecording /\ (mediaRecorderRef # 0 => rec[mediaRecorderRef].st # "recording")) =>
        stopRecording(S) = S

\* C30 witness: End was clicked after a recording had been stopped and
\* sent: its stopRecording found the recorder inactive and changed
\* nothing, and would change nothing again.
C30_Witness ==
    /\ last.op = "endSession" /\ ~last.threw
    /\ mediaRecorderRef # 0 /\ rec[mediaRecorderRef].flush = "sent"
    /\ ~isRecording
    /\ stopRecording(S) = S

\* ---- claims about advisory messages ---------------------------------

\* C31: inbound connected and turn_complete messages are advisory:
\* handling either leaves view, transcript, error, recording flag,
\* playback and channel state unchanged.
C31_AdvisoryChangesNothing ==
    [][\A c \in Channels :
          ChanMessageIn(c, AdvisoryMsgs) =>
              /\ view' = view /\ transcripts' = transcripts
              /\ error' = error /\ isRecording' = isRecording
              /\ speaking' = speaking /\ chan' = chan
              /\ rec' = rec]_vars

\* C31 witness: turn_complete has been handled while recording, with an
\* assistant line in the transcript still being spoken.
C31_Witness ==
    /\ last.op = "turn_complete"
    /\ view = "active" /\ isRecording
    /\ speaking = "a" /\ transcripts = <<Entry("assistant", "a")>>

\* ---- claims about the recording flag --------------------------------

\* C32: the recording flag agrees with the capture: isRecording is true
\* exactly when a recorder started by the component is recording and its
\* microphone stream is live.
C32_FlagAgreesWithCapture ==
    isRecording <=> (\E r \in Recorders : rec[r].st = "recording" /\ rec[r].live)

\* ---- claims about sessions and their channels -----------------------

\* C33: every 'audio' message is sent on the channel of the session
\* during which its recording was started.
C33_AudioOnOwnSessionsChannel ==
    \A e \in audioLog : e.ch = e.session

\* C34: once a later channel has been created, no open, close, error or
\* message event of an earlier channel changes view, transcript,
\* isConnected or isRecording.
C34_SupersededChannelIsInert ==
    [][\A c \in Channels :
          (/\ wsRef # 0 /\ c < wsRef
           /\ \/ ChanOpen(c) \/ ChanClose(c) \/ ChanFail(c)
              \/ ChanMessageIn(c, SessionMsgs)) =>
              UNCHANGED <<view, transcripts, isConnected, isRecording>>]_vars

\* ---- claims about typed messages ------------------------------------

\* C35: a typed user entry is appended only if its 'text' message was
\* transmitted: every sendTextMessage step that changes the transcript
\* sends on an OPEN socket.
C35_TypedEntryOnlyIfSent ==
    [][(SendTextMessage /\ transcripts' # transcripts) =>
          (wsRef # 0 /\ wsSendTransmits(S, wsRef))]_vars

\* C36: sendTextMessage with blank input or with no channel sends
\* nothing and leaves the transcript and the input unchanged; with
\* non-blank input and a channel it transmits the 'text' message, appends
\* one user entry with the same text and clears the input.
C36_SendTextMessageEffect ==
    [][SendTextMessage =>
          IF Trim(textInput) = "" \/ wsRef = 0
          THEN /\ transcripts' = transcripts /\ textInput' = textInput
               /\ ~last'.threw
          ELSE /\ wsSendTransmits(S, wsRef)
               /\ transcripts' = Append(transcripts, Entry("user", textInput))
               /\ textInput' = ""]_vars

====
